---- MODULE Spec2Model ----
(***************************************************************************)
(* A model of bpgsql.py: the Connection protocol engine of a PostgreSQL v2 *)
(* frontend (startup, execute, funcall, wait_for_notify, close) talking to *)
(* a backend over a stream socket.                                         *)
(*                                                                         *)
(* Abstractions.  The byte stream is kept at packet granularity: a packet  *)
(* is a record [tag, q, arg]; tag is the leading byte, arg an integer      *)
(* standing for the payload, q the number of the request the backend was   *)
(* answering when it emitted the packet (0 for an unsolicited packet).  q  *)
(* is not on the wire: it is history the properties read.  A recv() call   *)
(* moves the whole packets that have arrived from the socket into          *)
(* __input_buffer.  Python's None is the empty sequence and a present      *)
(* value x is <<x>>.                                                       *)
(***************************************************************************)
EXTENDS Integers, Sequences, FiniteSets, TLC

VARIABLES
    conn,       \* the Connection object's private fields
    pc,         \* where the caller is: in which loop of which method
    op,         \* the operation in progress or last finished, and how it ended
    sent,       \* what the client has written to the socket, oldest first
    wire,       \* packets the backend has written and recv() has not yet returned
    srvDone,    \* requests the backend has finished answering (it sent their Z)
    pktsLeft,   \* packets the backend may still send (bound)
    opsLeft,    \* operations the caller may still start (bound)
    nextA,      \* serial number of the next Notification the backend emits
    callRead,   \* history: packets read since the current operation began
    arrivedA,   \* history: Notification packets read, in order, and by which method
    delivered,  \* history: notifications returned by wait_for_notify, in order
    fatal,      \* history: a packet with an unsupported tag has been read
    types,      \* the type registries and the descriptors they reference
    lit,        \* a value handed to python_to_sql and the literal it gave
    rowin,      \* a row in the input buffer and the bundle __read_row fills
    copyin,     \* the input of a CopyIn and what _pkt_G sent of it
    cursor      \* a Cursor object after execute, and its last call

vars == <<conn, pc, op, sent, wire, srvDone, pktsLeft, opsLeft, nextA,
          callRead, arrivedA, delivered, fatal,
          types, lit, rowin, copyin, cursor>>

\* ---------------------------------------------------------------- bounds
MaxPkts == 3        \* packets the backend sends to an established connection
MaxOps == 3         \* operations the caller starts on an established connection
MaxStartPkts == 6   \* packets the backend sends while connect runs
MaxAuthPkts == 3    \* packets the backend sends in the authentication exchange
MaxUnread == 2      \* packets sent and not yet read by the client
MaxRegs == 3        \* registrations made on a connection's type registry
MaxLen == 3         \* length of a string handed to python_to_sql
MaxFields == 9      \* field counts up to which every null mask is tried
MaxStream == 5      \* characters in the input of a CopyIn
MaxRows == 2        \* rows of the result set a cursor holds
MaxSize == 2        \* size given to fetchmany, distance given to scroll
MaxCalls == 3       \* calls made on a cursor after its execute

\* ---------------------------------------------------------------- values
None == <<>>
Some(x) == <<x>>

Pkt(tag, q, arg) == [tag |-> tag, q |-> q, arg |-> arg]

\* Authentication codes an R packet may carry.
AuthCodes == 0 .. 6

\* _ResultSet(): a fresh result bundle.  conversion, num_fields and
\* null_byte_count follow description; the attribute `completed` does not
\* exist until _pkt_C sets it.
_ResultSet ==
    [description |-> None, error |-> None, rows |-> None, messages |-> <<>>,
     completed |-> None]

\* Result of a handler: the connection after it, the exception it raised (if
\* any) and the bytes it wrote to the socket.
Ok(c) == [c |-> c, exc |-> None, tx |-> <<>>]
Raise(c, e) == [c |-> c, exc |-> Some(e), tx |-> <<>>]

\* __send(data): raises InterfaceError when the socket is None.
__send(c, data) ==
    IF c.socket = None THEN Raise(c, "InterfaceError")
    ELSE [c |-> c, exc |-> None, tx |-> <<data>>]

\* A slip: the bundle just closed is put at the head of the batch.
__new_result_prepend(c) ==
    [c EXCEPT !.result = IF c.result = None THEN Some(<<>>)
                         ELSE Some(<<c.current_result[1]>> \o c.result[1]),
              !.current_result = Some(_ResultSet)]

\* __new_result(): conn.result holds self.__result without its last element,
\* which is the object conn.current_result references.
__new_result(c) ==
    [c EXCEPT !.result = IF c.result = None THEN Some(<<>>)
                         ELSE Some(Append(c.result[1], c.current_result[1])),
              !.current_result = Some(_ResultSet)]

\* ------------------------------------------------------- packet handlers
Cur(c) == c.current_result[1]
SetCur(c, b) == [c EXCEPT !.current_result = Some(b)]

\* Bytes of a packet left unread in __input_buffer when its handler raised
\* before reading them: the next __read_response takes them for a packet.
Leftover(p) == Pkt("?", p.q, 1)

\* A slip: the notification closes the current bundle as a completion does.
_pkt_A_new_bundle(c, p) ==
    Ok(__new_result([c EXCEPT !.notify_queue = Append(@, p.arg)]))

\* A slip: the notification is put at the head of the queue.
_pkt_A_prepend(c, p) == Ok([c EXCEPT !.notify_queue = <<p.arg>> \o @])

_pkt_A(c, p) == Ok([c EXCEPT !.notify_queue = Append(@, p.arg)])

\* __read_row: p.arg = 1 when every field decodes, 0 when the converter of
\* the row's last field raises (InterfaceError from _bool_convert).  A bundle
\* without a description has num_fields = 0 and rows = None: nothing is read,
\* and rows.append fails with the row's bytes still in the buffer.
__read_row(c, p) ==
    IF c.current_result = None THEN Raise(c, "AttributeError")
    ELSE IF Cur(c).description = None THEN
        Raise([c EXCEPT !.input_buffer = <<Leftover(p)>> \o @], "AttributeError")
    ELSE IF p.arg = 0 THEN Raise(c, "InterfaceError")
    ELSE Ok(SetCur(c, [Cur(c) EXCEPT !.rows = Some(Append(@[1], p))]))

_pkt_B(c, p) == __read_row(c, p)

_pkt_C(c, p) ==
    IF c.current_result = None THEN Raise(c, "AttributeError")
    ELSE Ok(__new_result(SetCur(c, [Cur(c) EXCEPT !.completed = Some(p)])))

_pkt_D(c, p) == __read_row(c, p)

\* A slip: the error is recorded and no new bundle is started.
_pkt_E_keeps_bundle(c, p) ==
    IF c.current_result # None
    THEN Ok(SetCur(c, [Cur(c) EXCEPT !.error = Some(p)]))
    ELSE Raise(c, "DatabaseError")

_pkt_E(c, p) ==
    IF c.current_result # None
    THEN Ok(__new_result(SetCur(c, [Cur(c) EXCEPT !.error = Some(p)])))
    ELSE Raise(c, "DatabaseError")

\* CopyIn: the lines of stdin and the terminating line are written.
_pkt_G(c, p) == __send(c, "copy")

\* CopyOut: the records up to the terminating one are read and written out.
_pkt_H(c, p) == Ok(c)

_pkt_I(c, p) == Ok(c)

_pkt_K(c, p) == Ok([c EXCEPT !.backend_pid = Some(p.arg)])

_pkt_N(c, p) ==
    IF c.current_result = None THEN Raise(c, "AttributeError")
    ELSE Ok(SetCur(c, [Cur(c) EXCEPT !.messages = Append(@, p)]))

_pkt_P(c, p) == Ok(c)

\* A slip: a Kerberos request is skipped instead of refused.
_pkt_R_skips_kerberos(c, p, crypt) ==
    CASE p.arg = 0 -> Ok([c EXCEPT !.authenticated = 1])
      [] p.arg = 1 -> Ok(c)
      [] p.arg = 2 -> Ok(c)
      [] p.arg = 3 -> __send(c, "p")
      [] p.arg = 4 -> IF crypt THEN __send(c, "p") ELSE Raise(c, "InterfaceError")
      [] p.arg = 5 -> __send(c, "p")
      [] OTHER -> Raise(c, "InterfaceError")

\* crypt: whether `import crypt` succeeds on this host.
_pkt_R(c, p, crypt) ==
    CASE p.arg = 0 -> Ok([c EXCEPT !.authenticated = 1])
      [] p.arg = 1 -> Raise(c, "InterfaceError")
      [] p.arg = 2 -> Raise(c, "InterfaceError")
      [] p.arg = 3 -> __send(c, "p")
      [] p.arg = 4 -> IF crypt THEN __send(c, "p") ELSE Raise(c, "InterfaceError")
      [] p.arg = 5 -> __send(c, "p")
      [] OTHER -> Raise(c, "InterfaceError")

\* set_description: rows becomes the empty list.
_pkt_T(c, p) ==
    IF c.current_result = None THEN Raise(c, "AttributeError")
    ELSE Ok(SetCur(c, [Cur(c) EXCEPT !.description = Some(p), !.rows = Some(<<>>)]))

\* p.arg = 0: the terminator alone; 1: a G sub-tag with a payload, then the
\* terminator; 2: another sub-tag.
_pkt_V(c, p) ==
    CASE p.arg = 0 -> Ok([c EXCEPT !.func_result = None])
      [] p.arg = 1 -> Ok([c EXCEPT !.func_result = Some(p)])
      [] OTHER -> Raise([c EXCEPT !.func_result = None], "InterfaceError")

_pkt_Z(c, p) == Ok([c EXCEPT !.ready = 1])

\* __read_response, after __read_bytes(1) has taken the tag of p out of the
\* buffer: look up _pkt_<tag> and call it.
__read_response(c, p, crypt) ==
    CASE p.tag = "A" -> _pkt_A(c, p)
      [] p.tag = "B" -> _pkt_B(c, p)
      [] p.tag = "C" -> _pkt_C(c, p)
      [] p.tag = "D" -> _pkt_D(c, p)
      [] p.tag = "E" -> _pkt_E(c, p)
      [] p.tag = "G" -> _pkt_G(c, p)
      [] p.tag = "H" -> _pkt_H(c, p)
      [] p.tag = "I" -> _pkt_I(c, p)
      [] p.tag = "K" -> _pkt_K(c, p)
      [] p.tag = "N" -> _pkt_N(c, p)
      [] p.tag = "P" -> _pkt_P(c, p)
      [] p.tag = "R" -> _pkt_R(c, p, crypt)
      [] p.tag = "T" -> _pkt_T(c, p)
      [] p.tag = "V" -> _pkt_V(c, p)
      [] p.tag = "Z" -> _pkt_Z(c, p)
      [] OTHER -> Raise(c, "InterfaceError")

\* ------------------------------------------------------------ operations
\* How a method ends: the connection after it, the exception it raised (if
\* any), the value it returned and the bytes it wrote.
Ret(c, v, tx) == [c |-> c, exc |-> None, value |-> v, tx |-> tx]
Exc(c, e, tx) == [c |-> c, exc |-> Some(e), value |-> None, tx |-> tx]

\* `if result.error:` -- an error string that is set and not empty.
Truthy(e) == e # None /\ e[1].arg # 0

\* _execute up to the packet loop: ready and the batch are cleared, a first
\* bundle is appended and the Query packet is written.
_execute_begin(c) ==
    LET c1 == __new_result([c EXCEPT !.ready = 0, !.result = None])
        s == __send(c1, "Q")
    IN  IF s.exc # None THEN Exc(c1, s.exc[1], <<>>) ELSE Ret(c1, None, s.tx)

\* _execute after the packet loop: the last bundle is dropped, the first one
\* is the result.
_execute_end(c) ==
    LET result == c.result[1]
        c1 == [c EXCEPT !.result = None]
    IN  IF result = <<>> THEN Exc(c1, "IndexError", <<>>)
        ELSE IF Truthy(result[1].error) THEN Exc(c1, "DatabaseError", <<>>)
        ELSE Ret(c1, Some([description |-> result[1].description,
                           rows |-> result[1].rows,
                           messages |-> result[1].messages]), <<>>)

\* funcall up to the packet loop: the F packet and its arguments are written.
funcall_begin(c) ==
    LET c1 == [c EXCEPT !.ready = 0]
        s == __send(c1, "F")
    IN  IF s.exc # None THEN Exc(c1, s.exc[1], <<>>) ELSE Ret(c1, None, s.tx)

\* funcall after the packet loop: the slot is read and cleared.
funcall_end(c) == Ret([c EXCEPT !.func_result = None], c.func_result, <<>>)

\* A slip: the closed socket is not forgotten.
__del___keeps_socket(c) ==
    IF c.socket # None
    THEN [c |-> c, exc |-> None, tx |-> <<"X">>]
    ELSE Ok(c)

\* __del__: Terminate is written and the socket closed.
__del__(c) ==
    IF c.socket # None
    THEN [c |-> [c EXCEPT !.socket = None], exc |-> None, tx |-> <<"X">>]
    ELSE Ok(c)

close(c) ==
    IF c.socket = None THEN Exc(c, "InterfaceError", <<>>)
    ELSE LET d == __del__(c) IN Ret(d.c, None, d.tx)

\* __initialize_type_map after its second execute returned v: the cursor
\* iterates the rows and unpacks each into (oid, name).
\* Cursor.next raises Error when there is no result set.
RegisterRows(c, v) ==
    IF v[1].rows = None THEN Exc(c, "Error", <<>>)
    ELSE IF v[1].rows[1] # <<>> /\ v[1].description[1].arg # 2
         THEN Exc(c, "ValueError", <<>>)
    ELSE Ret(c, None, <<>>)

\* One turn of `while not self.__ready: self.__read_response()` in the method
\* at `at`, r being what __read_response did, and what follows the loop when
\* it ends.  The result names where the caller is next.
Go(at, x) == [pc |-> at, c |-> x.c, exc |-> x.exc, value |-> x.value, tx |-> x.tx]
Fail(at, c, e, tx) == Go(at, Exc(c, e, tx))

AfterRead(at, r) ==
    LET dead == IF at \in {"startup", "boot1", "boot2"} THEN "failed" ELSE "idle"
    IN
    IF r.exc # None THEN Fail(dead, r.c, r.exc[1], r.tx)
    ELSE IF r.c.ready = 0 THEN Go(at, Ret(r.c, None, r.tx))
    ELSE CASE at = "exec" ->
                LET e == _execute_end(r.c) IN Go("idle", [e EXCEPT !.tx = r.tx])
           [] at = "funcall" ->
                LET e == funcall_end(r.c) IN Go("idle", [e EXCEPT !.tx = r.tx])
           [] at = "startup" ->
                LET b == _execute_begin(r.c)
                IN  IF b.exc # None THEN Fail("failed", b.c, b.exc[1], r.tx)
                    ELSE Go("boot1", Ret(b.c, None, r.tx \o b.tx))
           [] at = "boot1" ->
                LET e == _execute_end(r.c)
                    b == _execute_begin(e.c)
                IN  IF e.exc # None THEN Fail("failed", e.c, e.exc[1], r.tx)
                    ELSE IF b.exc # None THEN Fail("failed", b.c, b.exc[1], r.tx)
                    ELSE Go("boot2", Ret(b.c, None, r.tx \o b.tx))
           [] at = "boot2" ->
                LET e == _execute_end(r.c)
                    g == RegisterRows(e.c, e.value)
                IN  IF e.exc # None THEN Fail("failed", e.c, e.exc[1], r.tx)
                    ELSE IF g.exc # None THEN Fail("failed", g.c, g.exc[1], r.tx)
                    ELSE Go("idle", Ret(g.c, None, r.tx))

\* -------------------------------------------------------- type registry
\* _TypeManager objects hold references to _PgType objects.  types.heap is the
\* sequence of the _PgType objects created so far, a reference is an index
\* into it (0: no entry under that key), and types.reg gives each registry
\* its three dictionaries.  types.bound remembers the name each OID was last
\* bound to by register_oid ("" for none), types.described what the last
\* RowDescription field got from the registry.
TypeNames == {"int4", "text", "money"}
Oids == {23, 25}
Registries == {"DEFAULT_TYPE_MANAGER", "conn1", "conn2"}

_PgType(name, converter, type_id) ==
    [name |-> name, converter |-> converter, type_id |-> type_id, oid |-> None]

_DEFAULT_PGTYPE == _PgType("unknown", "_char_convert", "unknown")

_TypeManager ==
    [pg_types |-> [n \in TypeNames |-> 0], oid_map |-> [o \in Oids |-> 0],
     python_converters |-> {}]

\* _clone: the dictionaries pg_types and python_converters are copied, the
\* _PgType objects they reference are not; oid_map starts empty.
_clone(self) ==
    [_TypeManager EXCEPT !.pg_types = self.pg_types,
                         !.python_converters = self.python_converters]

\* register_pgsql for one name.
register_pgsql(t, r, name, converter, type_id) ==
    LET self == t.reg[r]
        oid == IF self.pg_types[name] # 0 THEN t.heap[self.pg_types[name]].oid
               ELSE None
        ref == Len(t.heap) + 1
        self1 == [self EXCEPT !.pg_types[name] = ref]
        self2 == IF oid # None THEN [self1 EXCEPT !.oid_map[oid[1]] = ref]
                 ELSE self1
    IN  [t EXCEPT !.heap = Append(@, _PgType(name, converter, type_id)),
                  !.reg[r] = self2]

register_oid(t, r, oid, name) ==
    LET self == t.reg[r]
        known == self.pg_types[name] # 0
        ref == IF known THEN self.pg_types[name] ELSE Len(t.heap) + 1
        heap1 == IF known THEN t.heap
                 ELSE Append(t.heap, _PgType(name, "_char_convert", "unknown"))
    IN  [t EXCEPT !.heap = [heap1 EXCEPT ![ref].oid = Some(oid)],
                  !.reg[r] = [self EXCEPT !.pg_types[name] = ref,
                                          !.oid_map[oid] = ref]]

register_python(t, r, klass) ==
    [t EXCEPT !.reg[r].python_converters = @ \cup {klass}]

\* A slip: the OID is looked up with self.oid_map[oid], which raises KeyError
\* for an OID that is not registered.
get_type_strict(t, r, oid) ==
    LET m == t.reg[r].oid_map
    IN  IF oid \in DOMAIN m /\ m[oid] # 0
        THEN [exc |-> None, value |-> Some(t.heap[m[oid]])]
        ELSE [exc |-> Some("KeyError"), value |-> None]

\* get_type: self.oid_map.get(oid, _DEFAULT_PGTYPE).
get_type(t, r, oid) ==
    LET m == t.reg[r].oid_map
    IN  [exc |-> None,
         value |-> Some(IF oid \in DOMAIN m /\ m[oid] # 0 THEN t.heap[m[oid]]
                        ELSE _DEFAULT_PGTYPE)]

\* get_conversion: the converter of what get_type finds.
get_conversion(t, r, oid) ==
    LET g == get_type(t, r, oid)
    IN  IF g.exc # None THEN g ELSE [g EXCEPT !.value = Some(@[1].converter)]

\* _pkt_T for a field of type oid: set_description takes the type_id of
\* get_type(oid) for the description, then _pkt_T takes get_conversion(oid)
\* for the row decoder.
describe_field(t, r, oid) ==
    LET g == get_type(t, r, oid)
        v == get_conversion(t, r, oid)
    IN  IF g.exc # None THEN [oid |-> oid, exc |-> g.exc, type_id |-> None, conversion |-> None]
        ELSE IF v.exc # None THEN [oid |-> oid, exc |-> v.exc, type_id |-> None, conversion |-> None]
        ELSE [oid |-> oid, exc |-> None, type_id |-> Some(g.value[1].type_id),
              conversion |-> v.value]

\* The module once loaded (two of its register_pgsql calls and its
\* register_python call) and two connections constructed, each with a clone
\* of the default registry.
LoadedTypes ==
    LET t0 == [heap |-> <<>>, left |-> MaxRegs,
               bound |-> [o \in Oids |-> ""], described |-> None,
               reg |-> [r \in Registries |-> _TypeManager]]
        t1 == register_pgsql(t0, "DEFAULT_TYPE_MANAGER", "text", "_char_convert", "STRING")
        t2 == register_pgsql(t1, "DEFAULT_TYPE_MANAGER", "int4", "int", "NUMBER")
        t3 == register_python(t2, "DEFAULT_TYPE_MANAGER", "date")
        d == t3.reg["DEFAULT_TYPE_MANAGER"]
    IN  [t3 EXCEPT !.reg["conn1"] = _clone(d), !.reg["conn2"] = _clone(d)]

\* ------------------------------------------------------------- literals
\* Strings are sequences of characters.
Quote == "'"
Backslash == "\\"
Chars == {Quote, Backslash, "a"}
Strings == UNION {[1 .. k -> Chars] : k \in 0 .. MaxLen}

\* Python values: a string, None, an integer.
Values ==
    {[type |-> "str", v |-> x] : x \in Strings}
    \cup {[type |-> "NoneType", v |-> <<>>], [type |-> "int", v |-> <<"7">>]}

\* str.replace(old, new) for a single character old.
RECURSIVE replace(_, _, _)
replace(x, old, new) ==
    IF x = <<>> THEN <<>>
    ELSE (IF Head(x) = old THEN new ELSE <<Head(x)>>) \o replace(Tail(x), old, new)

\* A slip: the quotes are escaped first, and their backslashes doubled after.
python_to_sql_quote_first(python_converters, obj) ==
    IF obj.type \in python_converters THEN <<"host", obj.type>>
    ELSE IF obj.type = "NoneType" THEN <<"N", "U", "L", "L">>
    ELSE IF obj.type = "str" THEN
        <<Quote>>
        \o replace(replace(obj.v, Quote, <<Backslash, Quote>>),
                   Backslash, <<Backslash, Backslash>>)
        \o <<Quote>>
    ELSE obj.v

\* python_to_sql: a converter registered for the value's type encodes it;
\* <<"host", type>> stands for what that converter returns.
python_to_sql(python_converters, obj) ==
    IF obj.type \in python_converters THEN <<"host", obj.type>>
    ELSE IF obj.type = "NoneType" THEN <<"N", "U", "L", "L">>
    ELSE IF obj.type = "str" THEN
        <<Quote>>
        \o replace(replace(obj.v, Backslash, <<Backslash, Backslash>>),
                   Quote, <<Backslash, Quote>>)
        \o <<Quote>>
    ELSE obj.v

NoLiteral ==
    [obj |-> [type |-> "NoneType", v |-> <<>>], python_converters |-> {},
     out |-> <<>>, done |-> FALSE]

\* ------------------------------------------------------------ row data
\* __read_row at the level of bytes.  The input buffer is a sequence of
\* numbers: a bitmap byte, the four-byte size of a field taken as one number,
\* or a byte of field data.  Of a bundle only what __read_row uses is kept.
\* A slip: one bitmap byte per eight fields, and one more.
null_byte_count_one_more(n) == n \div 8 + 1

\* set_description: (num_fields + 7) >> 3.
null_byte_count(n) == (n + 7) \div 8

FreshBundle == [num_fields |-> 0, null_byte_count |-> 0, rows |-> None]

set_description(n) ==
    [num_fields |-> n, null_byte_count |-> null_byte_count(n), rows |-> Some(<<>>)]

\* null_bits & field_mask, null_bits being the bitmap bytes read as one
\* big-endian number (a Python long, here its base-256 digits) and field_mask
\* the single bit 1 << pos; the mask shifted out to 0 has pos < 0.
BitSet(digits, pos) ==
    /\ pos >= 0
    /\ pos < 8 * Len(digits)
    /\ (digits[Len(digits) - (pos \div 8)] \div (2 ^ (pos % 8))) % 2 = 1

\* The loop over range(num_fields) with k fields to go; short: the buffer
\* ran out, __read_bytes would wait for the socket.
RECURSIVE read_fields(_, _, _, _, _)
read_fields(digits, pos, k, buf, ascii) ==
    IF k = 0 THEN [row |-> <<>>, buf |-> buf, short |-> FALSE]
    ELSE IF ~BitSet(digits, pos) THEN
        LET rest == read_fields(digits, pos - 1, k - 1, buf, ascii)
        IN  [rest EXCEPT !.row = <<None>> \o @]
    ELSE IF buf = <<>> THEN [row |-> <<>>, buf |-> buf, short |-> TRUE]
    ELSE
        LET field_size == Head(buf) - (IF ascii THEN 4 ELSE 0)
        IN  IF field_size < 0 \/ field_size > Len(buf) - 1
            THEN [row |-> <<>>, buf |-> Tail(buf), short |-> TRUE]
            ELSE LET rest == read_fields(digits, pos - 1, k - 1,
                                         SubSeq(buf, field_size + 2, Len(buf)), ascii)
                 IN  [rest EXCEPT !.row = <<Some(SubSeq(buf, 2, field_size + 1))>> \o @]

\* A slip: a null field adds nothing to the row.
read_row_skip_null(result, buf, ascii) ==
    LET nbc == result.null_byte_count
        f == read_fields(SubSeq(buf, 1, nbc), 8 * nbc - 1, result.num_fields,
                         SubSeq(buf, nbc + 1, Len(buf)), ascii)
    IN  IF result.rows = None
        THEN [result |-> result, buf |-> f.buf,
              exc |-> Some("AttributeError"), consumed |-> nbc]
        ELSE [result |-> [result EXCEPT
                            !.rows = Some(Append(@[1], SelectSeq(f.row, LAMBDA v : v # None)))],
              buf |-> f.buf, exc |-> None, consumed |-> nbc]

\* __read_row: the bitmap bytes, then the fields, then rows.append(row).
read_row(result, buf, ascii) ==
    LET nbc == result.null_byte_count
    IN  IF Len(buf) < nbc
        THEN [result |-> result, buf |-> buf, exc |-> Some("OperationalError"),
              consumed |-> 0]
        ELSE
        LET f == read_fields(SubSeq(buf, 1, nbc), 8 * nbc - 1, result.num_fields,
                             SubSeq(buf, nbc + 1, Len(buf)), ascii)
        IN  IF f.short
            THEN [result |-> result, buf |-> f.buf,
                  exc |-> Some("OperationalError"), consumed |-> nbc]
            ELSE IF result.rows = None
            THEN [result |-> result, buf |-> f.buf,
                  exc |-> Some("AttributeError"), consumed |-> nbc]
            ELSE [result |-> [result EXCEPT !.rows = Some(Append(@[1], f.row))],
                  buf |-> f.buf, exc |-> None, consumed |-> nbc]

\* What the backend puts on the wire for a row of n fields, present[i] telling
\* whether field i (from 1) has a value: the bitmap, bit 7 of byte 0 for the
\* first field, then size and data of each present field.
FieldData(i) == [j \in 1 .. (i % 3) |-> i]

BitmapByte(n, present, j) ==
    LET b(k) == IF 8 * j + k < n /\ present[8 * j + k + 1] THEN 2 ^ (7 - k) ELSE 0
    IN  b(0) + b(1) + b(2) + b(3) + b(4) + b(5) + b(6) + b(7)

RECURSIVE FieldBytes(_, _, _, _)
FieldBytes(n, present, i, ascii) ==
    IF i > n THEN <<>>
    ELSE (IF present[i]
          THEN <<Len(FieldData(i)) + (IF ascii THEN 4 ELSE 0)>> \o FieldData(i)
          ELSE <<>>) \o FieldBytes(n, present, i + 1, ascii)

RowBytes(n, present, ascii) ==
    [j \in 1 .. (n + 7) \div 8 |-> BitmapByte(n, present, j - 1)]
    \o FieldBytes(n, present, 1, ascii)

\* Field counts and null masks tried: every mask up to MaxFields fields; for
\* the wide rows of 32 and 33 fields, bitmaps of four and five bytes, the
\* masks with at most one field null or at most one present.
WideCounts == {32, 33}
Masks(n) ==
    IF n <= MaxFields THEN [1 .. n -> BOOLEAN]
    ELSE {[i \in 1 .. n |-> b] : b \in BOOLEAN}
         \cup {[i \in 1 .. n |-> (i = k) = b] : k \in 1 .. n, b \in BOOLEAN}

NoRow ==
    [n |-> 0, present |-> <<>>, ascii |-> TRUE, result |-> FreshBundle,
     buf |-> <<>>, exc |-> None, consumed |-> 0, done |-> FALSE]

\* -------------------------------------------------------------- copy in
\* _pkt_G at the level of characters.  The input source is the sequence of
\* characters not yet read from it.
Newline == "\n"
CopyChars == {"a", Backslash, ".", Newline}
EndOfCopy == <<Backslash, ".", Newline>>
Streams == UNION {[1 .. n -> CopyChars] : n \in 0 .. MaxStream}

\* stdin.readline(): up to and including the next newline, or what is left;
\* the empty string at the end of the input.
readline(src) ==
    LET nl == {i \in 1 .. Len(src) : src[i] = Newline}
        k == IF nl = {} THEN Len(src) ELSE CHOOSE i \in nl : \A j \in nl : i <= j
    IN  [s |-> SubSeq(src, 1, k), rest |-> SubSeq(src, k + 1, Len(src))]

\* The while loop: tx is what __send has written, in order.
RECURSIVE copy_loop(_, _, _)
copy_loop(src, tx, lastline) ==
    LET r == readline(src)
    IN  IF r.s = <<>> \/ r.s = EndOfCopy
        THEN [src |-> r.rest, tx |-> tx, lastline |-> lastline]
        ELSE copy_loop(r.rest, tx \o r.s, Some(r.s))

\* A slip: the newline a last line lacks is not supplied.
_pkt_G_bytes_no_newline(src) ==
    LET l == copy_loop(src, <<>>, None)
    IN  [src |-> l.src, tx |-> l.tx \o EndOfCopy]

\* _pkt_G: the loop, the newline the last line sent lacks, the terminator.
_pkt_G_bytes(src) ==
    LET l == copy_loop(src, <<>>, None)
        tx == IF l.lastline # None /\ l.lastline[1][Len(l.lastline[1])] # Newline
              THEN l.tx \o <<Newline>> ELSE l.tx
    IN  [src |-> l.src, tx |-> tx \o EndOfCopy]

NoCopy == [input |-> <<>>, src |-> <<>>, tx |-> <<>>, done |-> FALSE]

\* --------------------------------------------------------------- cursor
\* A Cursor: __rows (None without a result set), rowcount and rownumber.
\* A method gives the cursor it leaves, the exception it raised and the
\* value it returned.
Cursor(rows) ==
    [rows |-> rows,
     rowcount |-> IF rows = None THEN 0 - 1 ELSE Len(rows[1]),
     rownumber |-> IF rows = None THEN None ELSE Some(0)]

CurRet(cur, v) == [cur |-> cur, exc |-> None, value |-> v]
CurExc(cur, e) == [cur |-> cur, exc |-> Some(e), value |-> None]

\* rows[a:b] for indexes that are not negative.
Slice(rows, a, b) ==
    LET lo == IF a < Len(rows) THEN a ELSE Len(rows)
        hi == IF b < Len(rows) THEN b ELSE Len(rows)
    IN  SubSeq(rows, lo + 1, hi)

Cursor_next(cur) ==
    IF cur.rows = None THEN CurExc(cur, "Error")
    ELSE LET n == cur.rownumber[1]
         IN  IF n >= cur.rowcount THEN CurExc(cur, "StopIteration")
             ELSE CurRet([cur EXCEPT !.rownumber = Some(n + 1)],
                         Some(cur.rows[1][n + 1]))

Cursor_fetchone(cur) ==
    LET r == Cursor_next(cur)
    IN  IF r.exc = Some("StopIteration") THEN CurRet(r.cur, None) ELSE r

\* fetchmany(size): size None stands for arraysize, 1 unless assigned.
Cursor_fetchmany(cur, size) ==
    IF cur.rows = None THEN CurExc(cur, "Error")
    ELSE LET n == cur.rownumber[1]
         IN  CurRet([cur EXCEPT !.rownumber = Some(n + size)],
                    Some(Slice(cur.rows[1], n, n + size)))

Cursor_fetchall(cur) ==
    IF cur.rows = None THEN CurExc(cur, "Error")
    ELSE Cursor_fetchmany(cur, cur.rowcount - cur.rownumber[1])

Cursor_scroll(cur, n, mode) ==
    IF cur.rows = None THEN CurExc(cur, "Error")
    ELSE IF mode \notin {"relative", "absolute"} THEN CurExc(cur, "ProgrammingError")
    ELSE LET newpos == IF mode = "relative" THEN cur.rownumber[1] + n ELSE n
         IN  IF newpos < 0 \/ newpos >= cur.rowcount THEN CurExc(cur, "IndexError")
             ELSE CurRet([cur EXCEPT !.rownumber = Some(newpos)], None)

NoCall == [name |-> "execute", arg |-> 0, mode |-> "", exc |-> None, value |-> None]

NoCursor == [cur |-> Cursor(None), last |-> NoCall, calls |-> 0]

\* ----------------------------------------------------------------- state
NewConnection ==
    [socket |-> Some("socket"), input_buffer |-> <<>>, authenticated |-> 0,
     ready |-> 0, result |-> None, current_result |-> None,
     notify_queue |-> <<>>, func_result |-> None, backend_pid |-> None]

Requests == SelectSeq(sent, LAMBDA t : t \in {"S", "Q", "F"})

\* The record of an operation: its name, the number of the request it sent
\* (0 when it sent none), how it ended ("running" until it does), the value
\* it returned, its timeout argument, what it wrote to the socket, and
\* whether the connection was closed, and whether an unsupported tag had been
\* read, when it was called.
Call(name, timeout, x) ==
    [name |-> name,
     q |-> IF x.tx = <<>> THEN 0 ELSE Len(Requests) + 1,
     status |-> IF x.exc # None THEN x.exc[1] ELSE "running",
     value |-> None, timeout |-> timeout, tx |-> x.tx,
     closedAtCall |-> conn.socket = None, fatalAtCall |-> fatal]

Done(o, x) ==
    [o EXCEPT !.status = IF x.exc # None THEN x.exc[1] ELSE "returned",
              !.value = x.value, !.tx = @ \o x.tx]

ServerVars == <<wire, srvDone, pktsLeft, nextA>>
History == <<callRead, arrivedA, delivered, fatal>>

\* An established connection: connect has returned, the two bootstrap
\* queries were answered, current_result is the bundle the second one dropped.
Established ==
    /\ conn = [NewConnection EXCEPT !.authenticated = 1, !.ready = 1,
                                    !.current_result = Some(_ResultSet),
                                    !.backend_pid = Some(1)]
    /\ pc = "idle"
    /\ sent = <<"S", "Q", "Q">>
    /\ op = [name |-> "connect", q |-> 1, status |-> "returned", value |-> None,
             timeout |-> 0, tx |-> sent, closedAtCall |-> FALSE,
             fatalAtCall |-> FALSE]
    /\ wire = <<>>
    /\ srvDone = 3
    /\ pktsLeft = MaxPkts
    /\ opsLeft = MaxOps
    /\ nextA = 1
    /\ callRead = <<>>
    /\ arrivedA = <<>>
    /\ delivered = <<>>
    /\ fatal = FALSE

InitEstablished ==
    /\ Established
    /\ types = LoadedTypes
    /\ lit = NoLiteral
    /\ rowin = NoRow
    /\ copyin = NoCopy
    /\ cursor = NoCursor

\* A connection being made: Connection.__init__ has connected the socket and
\* written the Startup packet; the backend has n packets to send.
Connecting(n) ==
    /\ conn = NewConnection
    /\ pc = "startup"
    /\ sent = <<"S">>
    /\ op = [name |-> "connect", q |-> 1, status |-> "running", value |-> None,
             timeout |-> 0, tx |-> sent, closedAtCall |-> FALSE,
             fatalAtCall |-> FALSE]
    /\ wire = <<>>
    /\ srvDone = 0
    /\ pktsLeft = n
    /\ opsLeft = 0
    /\ nextA = 1
    /\ callRead = <<>>
    /\ arrivedA = <<>>
    /\ delivered = <<>>
    /\ fatal = FALSE
    /\ types = LoadedTypes
    /\ lit = NoLiteral
    /\ rowin = NoRow
    /\ copyin = NoCopy
    /\ cursor = NoCursor

InitConnect == Connecting(MaxStartPkts)

\* The authentication exchange alone: the first packets after Startup.
InitAuth == Connecting(MaxAuthPkts)

ProtocolVars ==
    <<conn, pc, op, sent, wire, srvDone, pktsLeft, opsLeft, nextA,
      callRead, arrivedA, delivered, fatal>>

\* What the packet loop and the public methods of Connection leave alone in
\* this model.
Library == <<types, lit, rowin, copyin, cursor>>

\* ----------------------------------------------------------- the caller
\* A method that begins with x = <method>_begin(conn) and then loops at `at`.
Start(name, at, x) ==
    /\ pc = "idle"
    /\ opsLeft > 0
    /\ opsLeft' = opsLeft - 1
    /\ conn' = x.c
    /\ op' = Call(name, 0, x)
    /\ pc' = IF x.exc # None THEN "idle" ELSE at
    /\ sent' = sent \o x.tx
    /\ callRead' = <<>>
    /\ UNCHANGED <<ServerVars, arrivedA, delivered, fatal>>
    /\ UNCHANGED Library

\* Cursor.execute, commit and rollback each call self._execute(cmd); the
\* record of the operation is that of the _execute call.
Execute == Start("_execute", "exec", _execute_begin(conn))

Commit == Start("_execute", "exec", _execute_begin(conn))

Rollback == Start("_execute", "exec", _execute_begin(conn))

Funcall == Start("funcall", "funcall", funcall_begin(conn))

Close ==
    LET x == close(conn)
    IN  /\ pc = "idle"
        /\ opsLeft > 0
        /\ opsLeft' = opsLeft - 1
        /\ conn' = x.c
        /\ op' = Done(Call("close", 0, Ok(conn)), x)
        /\ sent' = sent \o x.tx
        /\ callRead' = <<>>
        /\ UNCHANGED <<pc, ServerVars, arrivedA, delivered, fatal>>
        /\ UNCHANGED Library

\* The owner drops the connection, or calls __del__ itself: no method is
\* running then.
Drop ==
    LET d == __del__(conn)
    IN  /\ pc = "idle"
        /\ opsLeft > 0
        /\ opsLeft' = opsLeft - 1
        /\ conn' = d.c
        /\ op' = Done(Call("__del__", 0, Ok(conn)), Ret(d.c, None, d.tx))
        /\ sent' = sent \o d.tx
        /\ callRead' = <<>>
        /\ UNCHANGED <<pc, ServerVars, arrivedA, delivered, fatal>>
        /\ UNCHANGED Library

\* __read_bytes(1) of __read_response: the buffer is used when it holds a
\* packet; otherwise recv(4096) brings in what has arrived, k > 0 packets (a
\* packet that has not arrived is one the backend has yet to send).
CanRead(k) ==
    /\ k \in {0, Len(wire)}
    /\ IF conn.input_buffer # <<>> THEN k = 0 ELSE k > 0 /\ conn.socket # None

Stream(k) == conn.input_buffer \o SubSeq(wire, 1, k)

\* What reading the packet at the head of Stream(k) leaves in the histories.
Reads(k) ==
    LET p == Head(Stream(k))
    IN  /\ wire' = SubSeq(wire, k + 1, Len(wire))
        /\ callRead' = Append(callRead, p)
        /\ arrivedA' = IF p.tag = "A"
                       THEN Append(arrivedA, [arg |-> p.arg, by |-> op.name])
                       ELSE arrivedA
        /\ fatal' = (fatal \/ p.tag = "?")

\* One turn of the packet loop of connect, _execute or funcall.
Step ==
    /\ pc \in {"startup", "boot1", "boot2", "exec", "funcall"}
    /\ \E k \in {0, Len(wire)}, crypt \in BOOLEAN :
        /\ CanRead(k)
        /\ LET p == Head(Stream(k))
               c0 == [conn EXCEPT !.input_buffer = Tail(Stream(k))]
               a == AfterRead(pc, __read_response(c0, p, crypt))
               x == IF op.name = "connect" THEN [a EXCEPT !.value = None] ELSE a
           IN  /\ conn' = a.c
               /\ pc' = a.pc
               /\ op' = IF a.pc \in {"idle", "failed"} THEN Done(op, x)
                        ELSE [op EXCEPT !.tx = @ \o a.tx]
               /\ sent' = sent \o a.tx
        /\ Reads(k)
    /\ UNCHANGED <<srvDone, pktsLeft, opsLeft, nextA, delivered>>
    /\ UNCHANGED Library

\* A slip: the newest notification is taken, as list.pop() would.
wait_for_notify_take_newest(c) ==
    Ret([c EXCEPT !.notify_queue = SubSeq(@, 1, Len(@) - 1)],
        Some(c.notify_queue[Len(c.notify_queue)]), <<>>)

\* wait_for_notify, the first test of its loop: a queued notification is
\* returned at once.
wait_for_notify_take(c) ==
    Ret([c EXCEPT !.notify_queue = Tail(@)], Some(Head(c.notify_queue)), <<>>)

Timeouts == {0, -1}

WaitForNotify(timeout) ==
    /\ pc = "idle"
    /\ opsLeft > 0
    /\ opsLeft' = opsLeft - 1
    /\ callRead' = <<>>
    /\ IF conn.notify_queue # <<>>
       THEN LET x == wait_for_notify_take(conn)
            IN  /\ conn' = x.c
                /\ op' = Done(Call("wait_for_notify", timeout, Ok(conn)), x)
                /\ delivered' = Append(delivered, x.value[1])
                /\ pc' = "idle"
       ELSE /\ op' = Call("wait_for_notify", timeout, Ok(conn))
            /\ pc' = "wait"
            /\ UNCHANGED <<conn, delivered>>
    /\ UNCHANGED <<sent, ServerVars, arrivedA, fatal>>
    /\ UNCHANGED Library

\* __wait_response: 1 when the buffer is not empty or select() reports the
\* socket readable, 0 when the timeout expires first.
__wait_response(c, readable) ==
    IF c.input_buffer # <<>> THEN 1 ELSE IF readable THEN 1 ELSE 0

\* A slip: the timeout makes wait_for_notify return None instead of raising.
wait_for_notify_timeout_returns(c) == Ret(c, None, <<>>)

\* wait_for_notify when __wait_response returned 0.
wait_for_notify_timeout(c) == Exc(c, "PostgreSQL_Timeout", <<>>)

\* wait_for_notify with an empty queue, when __wait_response returns 1:
\* __read_response handles one packet and the loop tests the queue again.
\* select() on a socket that is None raises TypeError.
WaitStep ==
    /\ pc = "wait"
    /\ IF conn.input_buffer = <<>> /\ conn.socket = None
       THEN /\ op' = Done(op, Exc(conn, "TypeError", <<>>))
            /\ pc' = "idle"
            /\ UNCHANGED <<conn, sent, wire, callRead, arrivedA, delivered, fatal>>
       ELSE \E k \in {0, Len(wire)}, crypt \in BOOLEAN :
            /\ __wait_response(conn, wire # <<>>) = 1
            /\ CanRead(k)
            /\ LET p == Head(Stream(k))
                   c0 == [conn EXCEPT !.input_buffer = Tail(Stream(k))]
                   r == __read_response(c0, p, crypt)
                   x == wait_for_notify_take(r.c)
               IN  IF r.exc # None
                   THEN /\ conn' = r.c
                        /\ op' = Done(op, Exc(r.c, r.exc[1], r.tx))
                        /\ pc' = "idle"
                        /\ sent' = sent \o r.tx
                        /\ UNCHANGED delivered
                   ELSE IF r.c.notify_queue # <<>>
                   THEN /\ conn' = x.c
                        /\ op' = Done(op, [x EXCEPT !.tx = r.tx])
                        /\ pc' = "idle"
                        /\ sent' = sent \o r.tx
                        /\ delivered' = Append(delivered, x.value[1])
                   ELSE /\ conn' = r.c
                        /\ op' = [op EXCEPT !.tx = @ \o r.tx]
                        /\ pc' = "wait"
                        /\ sent' = sent \o r.tx
                        /\ UNCHANGED delivered
            /\ Reads(k)
    /\ UNCHANGED <<srvDone, pktsLeft, opsLeft, nextA>>
    /\ UNCHANGED Library

\* wait_for_notify with an empty queue, when __wait_response returns 0: no
\* byte arrived before the deadline.  A negative timeout never expires.
WaitTimeout ==
    /\ pc = "wait"
    /\ conn.socket # None
    /\ op.timeout >= 0
    /\ __wait_response(conn, wire # <<>>) = 0
    /\ LET x == wait_for_notify_timeout(conn)
       IN  /\ conn' = x.c
           /\ op' = Done(op, x)
    /\ pc' = "idle"
    /\ UNCHANGED <<sent, ServerVars, opsLeft, History>>
    /\ UNCHANGED Library

\* ---------------------------------------------------------- the backend
NFields == 2

\* What the backend may emit while it answers request number q of the given
\* kind: the Startup packet, a Query or a function call.
Answers(kind, q) ==
    CASE kind = "S" ->
            {Pkt("R", q, code) : code \in AuthCodes}
            \cup {Pkt("K", q, 1), Pkt("E", q, 1), Pkt("N", q, 1), Pkt("Z", q, 0)}
      [] kind = "Q" ->
            {Pkt("T", q, NFields), Pkt("D", q, 1), Pkt("D", q, 0), Pkt("C", q, 1),
             Pkt("E", q, 1), Pkt("N", q, 1), Pkt("I", q, 0), Pkt("A", q, nextA),
             Pkt("Z", q, 0), Pkt("?", q, 0)}
      [] kind = "F" ->
            {Pkt("V", q, 0), Pkt("V", q, 1), Pkt("E", q, 1), Pkt("Z", q, 0),
             Pkt("?", q, 0)}

ServerUp ==
    /\ conn.socket # None
    /\ pc # "failed"
    /\ pktsLeft > 0
    /\ Len(conn.input_buffer) + Len(wire) < MaxUnread

\* The backend emits one packet of its answer to the oldest unanswered request.
ServerAnswer ==
    /\ ServerUp
    /\ srvDone < Len(Requests)
    /\ \E p \in Answers(Requests[srvDone + 1], srvDone + 1) :
        /\ wire' = Append(wire, p)
        /\ srvDone' = IF p.tag = "Z" THEN srvDone + 1 ELSE srvDone
        /\ nextA' = IF p.tag = "A" THEN nextA + 1 ELSE nextA
    /\ pktsLeft' = pktsLeft - 1
    /\ UNCHANGED <<conn, pc, op, sent, opsLeft, History>>
    /\ UNCHANGED Library

\* The backend, idle, forwards another session's NOTIFY.
ServerNotify ==
    /\ ServerUp
    /\ srvDone = Len(Requests)
    /\ wire' = Append(wire, Pkt("A", 0, nextA))
    /\ nextA' = nextA + 1
    /\ pktsLeft' = pktsLeft - 1
    /\ UNCHANGED <<conn, pc, op, sent, srvDone, opsLeft, History>>
    /\ UNCHANGED Library

Next ==
    \/ Execute
    \/ Commit
    \/ Rollback
    \/ Funcall
    \/ Close
    \/ Drop
    \/ \E timeout \in Timeouts : WaitForNotify(timeout)
    \/ Step
    \/ WaitStep
    \/ WaitTimeout
    \/ ServerAnswer
    \/ ServerNotify

\* An established connection and its caller.
Spec == InitEstablished /\ [][Next]_vars

\* An established connection whose first execute has just raised
\* InterfaceError on a packet with an unsupported tag, the first of the
\* backend's answer: ready is 0 and the rest of the answer is still to come.
InitAfterFailure ==
    /\ conn = [NewConnection EXCEPT !.authenticated = 1, !.ready = 0,
                                    !.result = Some(<<>>),
                                    !.current_result = Some(_ResultSet),
                                    !.backend_pid = Some(1)]
    /\ pc = "idle"
    /\ sent = <<"S", "Q", "Q", "Q">>
    /\ op = [name |-> "_execute", q |-> 4, status |-> "InterfaceError",
             value |-> None, timeout |-> 0, tx |-> <<"Q">>,
             closedAtCall |-> FALSE, fatalAtCall |-> FALSE]
    /\ wire = <<>>
    /\ srvDone = 3
    /\ pktsLeft = MaxPkts
    /\ opsLeft = MaxOps - 1
    /\ nextA = 1
    /\ callRead = <<Pkt("?", 4, 0)>>
    /\ arrivedA = <<>>
    /\ delivered = <<>>
    /\ fatal = TRUE
    /\ types = LoadedTypes
    /\ lit = NoLiteral
    /\ rowin = NoRow
    /\ copyin = NoCopy
    /\ cursor = NoCursor

SpecAfterFailure == InitAfterFailure /\ [][Next]_vars

\* connect alone, from the Startup packet until it returns or raises.
NextConnect ==
    \/ Step
    \/ ServerAnswer
    \/ ServerNotify

SpecConnect == InitConnect /\ [][NextConnect]_vars

\* connect during the authentication exchange.
SpecAuth == InitAuth /\ [][NextConnect]_vars

\* ------------------------------------------- the registry's own callers

\* Connection 1 binds an OID to a type name, as __initialize_type_map does
\* for every row of pg_type.
RegisterOid ==
    /\ types.left > 0
    /\ \E oid \in Oids, name \in TypeNames :
        types' = [register_oid(types, "conn1", oid, name)
                    EXCEPT !.left = @ - 1, !.bound[oid] = name]
    /\ UNCHANGED <<ProtocolVars, lit, rowin, copyin, cursor>>

\* Connection 1 registers a converter of its own for a type name.
RegisterPgsql ==
    /\ types.left > 0
    /\ \E name \in TypeNames :
        types' = [register_pgsql(types, "conn1", name, "conv", "STRING")
                    EXCEPT !.left = @ - 1]
    /\ UNCHANGED <<ProtocolVars, lit, rowin, copyin, cursor>>

\* OIDs a RowDescription may carry: the registered ones and one pg_type
\* never listed.
RowOids == Oids \cup {705}

\* Connection 1 handles a RowDescription with a field of type oid.
DescribeField ==
    /\ \E oid \in RowOids :
        /\ types.described # Some(describe_field(types, "conn1", oid))
        /\ types' = [types EXCEPT !.described = Some(describe_field(types, "conn1", oid))]
    /\ UNCHANGED <<ProtocolVars, lit, rowin, copyin, cursor>>

NextTypes ==
    \/ RegisterOid
    \/ RegisterPgsql
    \/ DescribeField

SpecTypes == InitEstablished /\ [][NextTypes]_vars

\* A value is handed to python_to_sql of a registry whose python_converters
\* has the given keys.
InitLiteral ==
    /\ Established
    /\ types = LoadedTypes
    /\ rowin = NoRow
    /\ copyin = NoCopy
    /\ cursor = NoCursor
    /\ lit \in {[obj |-> o, python_converters |-> cs, out |-> <<>>, done |-> FALSE] :
                 o \in Values, cs \in SUBSET {"str", "NoneType"}}

Encode ==
    /\ ~lit.done
    /\ lit' = [lit EXCEPT !.out = python_to_sql(lit.python_converters, lit.obj),
                          !.done = TRUE]
    /\ UNCHANGED <<ProtocolVars, types, rowin, copyin, cursor>>

NextLiteral == Encode

SpecLiteral == InitLiteral /\ [][NextLiteral]_vars

\* A row of n fields is in the input buffer.  described: the current bundle
\* got the RowDescription of n fields; otherwise a CommandComplete or an
\* ErrorResponse came after it and the current bundle is a fresh one.
InitRow ==
    /\ Established
    /\ types = LoadedTypes
    /\ lit = NoLiteral
    /\ copyin = NoCopy
    /\ cursor = NoCursor
    /\ \E n \in (0 .. MaxFields) \cup WideCounts, ascii \in BOOLEAN,
          described \in BOOLEAN :
        \E present \in Masks(n) :
            rowin = [NoRow EXCEPT !.n = n, !.present = present, !.ascii = ascii,
                        !.result = IF described THEN set_description(n)
                                   ELSE FreshBundle,
                        !.buf = RowBytes(n, present, ascii)]

\* _pkt_D or _pkt_B: __read_row(ascii).
ReadRow ==
    /\ ~rowin.done
    /\ LET r == read_row(rowin.result, rowin.buf, rowin.ascii)
       IN  rowin' = [rowin EXCEPT !.result = r.result, !.buf = r.buf,
                                  !.exc = r.exc, !.consumed = r.consumed,
                                  !.done = TRUE]
    /\ UNCHANGED <<ProtocolVars, types, lit, copyin, cursor>>

NextRow == ReadRow

SpecRow == InitRow /\ [][NextRow]_vars

\* A CopyInResponse has been read and self.stdin holds the input.
InitCopy ==
    /\ Established
    /\ types = LoadedTypes
    /\ lit = NoLiteral
    /\ rowin = NoRow
    /\ cursor = NoCursor
    /\ \E s \in Streams : copyin = [NoCopy EXCEPT !.input = s, !.src = s]

CopyIn ==
    /\ ~copyin.done
    /\ LET r == _pkt_G_bytes(copyin.src)
       IN  copyin' = [copyin EXCEPT !.src = r.src, !.tx = r.tx, !.done = TRUE]
    /\ UNCHANGED <<ProtocolVars, types, lit, rowin, cursor>>

NextCopy == CopyIn

SpecCopy == InitCopy /\ [][NextCopy]_vars

\* A cursor whose execute has returned: a result set of up to MaxRows rows,
\* or none for a command that returns no rows.
InitCursor ==
    /\ Established
    /\ types = LoadedTypes
    /\ lit = NoLiteral
    /\ rowin = NoRow
    /\ copyin = NoCopy
    /\ \E rows \in {None} \cup {Some([i \in 1 .. n |-> i]) : n \in 0 .. MaxRows} :
          cursor = [NoCursor EXCEPT !.cur = Cursor(rows)]

CursorCall(name, arg, mode, r) ==
    /\ cursor.calls < MaxCalls
    /\ cursor' = [cur |-> r.cur,
                  last |-> [name |-> name, arg |-> arg, mode |-> mode,
                            exc |-> r.exc, value |-> r.value],
                  calls |-> cursor.calls + 1]
    /\ UNCHANGED <<ProtocolVars, types, lit, rowin, copyin>>

CursorNext == CursorCall("next", 0, "", Cursor_next(cursor.cur))

Fetchone == CursorCall("fetchone", 0, "", Cursor_fetchone(cursor.cur))

Fetchmany ==
    \E size \in 0 .. MaxSize :
        CursorCall("fetchmany", size, "", Cursor_fetchmany(cursor.cur, size))

Fetchall == CursorCall("fetchall", 0, "", Cursor_fetchall(cursor.cur))

Scroll ==
    \E n \in (0 - MaxSize) .. MaxSize, mode \in {"relative", "absolute", "other"} :
        CursorCall("scroll", n, mode, Cursor_scroll(cursor.cur, n, mode))

NextCursor ==
    \/ CursorNext
    \/ Fetchone
    \/ Fetchmany
    \/ Fetchall
    \/ Scroll

SpecCursor == InitCursor /\ [][NextCursor]_vars

\* ------------------------------------------------------------ properties
Last(sq) == sq[Len(sq)]
Finished == op.status # "running"
Has(sq, tag) == \E i \in 1 .. Len(sq) : sq[i].tag = tag

\* The packets read by the _execute call that just ended are the backend's
\* answer to its own Query (and unsolicited notifications), read up to Z.
ReadOwnAnswer ==
    /\ op.name = "_execute"
    /\ Finished
    /\ op.q > 0
    /\ callRead # <<>>
    /\ Last(callRead).tag = "Z"
    /\ \A i \in 1 .. Len(callRead) : callRead[i].q \in {0, op.q}

\* C1: whenever the backend's answer to one execute, read up to its
\* ReadyForQuery, holds an ErrorResponse in any position, execute raises a
\* database error instead of returning a result.
C1_ErrorAlwaysRaised ==
    (ReadOwnAnswer /\ Has(callRead, "E")) => op.status = "DatabaseError"

\* C2: whenever execute returns normally, ready is true, the last packet
\* consumed is the ReadyForQuery of this execute's own batch (all of the batch
\* was consumed and nothing after it), and no packet of the batch is left in
\* the input buffer.
C2_ExecuteConsumesItsBatch ==
    (op.name = "_execute" /\ op.status = "returned") =>
        /\ conn.ready = 1
        /\ callRead # <<>>
        /\ Last(callRead) = Pkt("Z", op.q, 0)
        /\ \A i \in 1 .. Len(conn.input_buffer) : conn.input_buffer[i].q # op.q

\* C3: an execute whose answer is well-formed and ends with ReadyForQuery
\* ends by returning the batch's result or by raising a database error, and
\* in no other way.
C3_BatchOrDatabaseError ==
    ReadOwnAnswer => op.status \in {"returned", "DatabaseError"}

\* C4: every operation called after close() has returned fails with an
\* interface error.
C4_ClosedConnectionRejects ==
    (op.closedAtCall /\ Finished) => op.status = "InterfaceError"

Args(sq) == [i \in 1 .. Len(sq) |-> sq[i].arg]
Unread == conn.input_buffer \o wire

\* C5: the notifications returned by successive wait_for_notify calls are the
\* Notification packets the engine has read, in arrival order, none skipped
\* or duplicated; those read and not yet returned wait in the queue, in order.
C5_NotifyFifo == Args(arrivedA) = delivered \o conn.notify_queue

\* Two notifications were delivered, the first read by the packet loop of
\* _execute and the second by wait_for_notify itself.
C5_Witness ==
    /\ Len(delivered) = 2
    /\ arrivedA[1].by = "_execute"
    /\ arrivedA[2].by = "wait_for_notify"
    /\ op.name = "wait_for_notify"
    /\ op.status = "returned"

\* C6: a wait_for_notify with an empty queue, an empty input buffer, nothing
\* arrived on the socket and a timeout >= 0 ends only by the timeout error,
\* leaving the connection unchanged; and a wait_for_notify that, its queue
\* empty, reads a Notification packet returns that notification.
C6_TimeoutThenNotify ==
    [][ /\ ( /\ pc = "wait"
             /\ conn.socket # None
             /\ conn.notify_queue = <<>>
             /\ Unread = <<>>
             /\ op.timeout >= 0
             /\ op' # op )
          => ( /\ op'.status = "PostgreSQL_Timeout"
               /\ pc' = "idle"
               /\ conn' = conn
               /\ sent' = sent )
        /\ ( /\ pc = "wait"
             /\ conn.notify_queue = <<>>
             /\ Unread # <<>>
             /\ Head(Unread).tag = "A"
             /\ callRead' # callRead )
          => ( /\ op'.status = "returned"
               /\ op'.value = Some(Head(Unread).arg)
               /\ pc' = "idle" ) ]_vars

\* The first operation on the connection was a wait_for_notify that timed
\* out; the second one, a wait_for_notify(0), returned the notification that
\* arrived in between.
C6_Witness ==
    /\ opsLeft = MaxOps - 2
    /\ sent = <<"S", "Q", "Q">>
    /\ conn.socket # None
    /\ op.name = "wait_for_notify"
    /\ op.timeout = 0
    /\ op.status = "returned"
    /\ delivered = <<1>>
    /\ arrivedA = <<[arg |-> 1, by |-> "wait_for_notify"]>>

\* C7: a wait_for_notify called with a non-empty queue returns the oldest
\* queued notification and removes exactly that one; it reads and writes
\* nothing, and the rest of the connection is unchanged.
C7_QueuedNotifyNoRead ==
    [][ ( /\ pc = "idle"
          /\ conn.notify_queue # <<>>
          /\ opsLeft' # opsLeft
          /\ op'.name = "wait_for_notify" )
        => ( /\ op'.status = "returned"
             /\ op'.value = Some(Head(conn.notify_queue))
             /\ conn' = [conn EXCEPT !.notify_queue = Tail(conn.notify_queue)]
             /\ wire' = wire
             /\ sent' = sent
             /\ callRead' = <<>>
             /\ pc' = "idle" ) ]_vars

\* wait_for_notify returned a queued notification without reading, although
\* a packet was waiting in the input buffer.
C7_Witness ==
    /\ op.name = "wait_for_notify"
    /\ op.status = "returned"
    /\ callRead = <<>>
    /\ conn.input_buffer # <<>>

\* C8: whenever connect returns, the authenticated flag is set and the ready
\* flag is true.
C8_ConnectAuthenticates ==
    (op.name = "connect" /\ op.status = "returned") =>
        (conn.authenticated = 1 /\ conn.ready = 1)

\* C9: reading a packet with an unsupported tag ends the reading operation
\* with an interface error, and every execute, funcall or wait_for_notify
\* called after that writes nothing to the socket and does not return.
C9_UnknownTagFatal ==
    /\ (callRead # <<>> /\ Last(callRead).tag = "?") => op.status = "InterfaceError"
    /\ (op.fatalAtCall /\ op.name \in {"_execute", "funcall", "wait_for_notify"})
        => (op.tx = <<>> /\ op.status # "returned")

\* C10: whenever execute raises a database error it has read on up to the
\* ReadyForQuery of its own batch: ready is true, the last packet consumed is
\* that Z, and no packet of the batch, nor of an earlier one, is left unread
\* for the next execute to take for its own answer.
C10_ErrorRaisedAfterReady ==
    (op.name = "_execute" /\ op.status = "DatabaseError") =>
        /\ conn.ready = 1
        /\ callRead # <<>>
        /\ Last(callRead) = Pkt("Z", op.q, 0)
        /\ \A i \in 1 .. Len(Unread) : Unread[i].q \notin 1 .. op.q

\* C11: an execute called while the ready flag is false is rejected with an
\* error and writes nothing to the socket.
C11_ExecuteRequiresReady ==
    [][ ( /\ pc = "idle"
          /\ conn.ready = 0
          /\ opsLeft' # opsLeft
          /\ op'.name = "_execute" )
        => ( /\ sent' = sent
             /\ op'.status \notin {"running", "returned"} ) ]_vars

\* The payload funcall owes its caller: that of the last FunctionResponse
\* read during the call when it carried a G sub-tag, None otherwise.
FuncallPayload(sq) ==
    LET vs == SelectSeq(sq, LAMBDA p : p.tag = "V")
    IN  IF vs # <<>> /\ Last(vs).arg = 1 THEN Some(Last(vs)) ELSE None

\* C12: a funcall that returns gives the payload of the FunctionResponse it
\* read during that very call, or None when it read none, and leaves the
\* function-result slot None.  Each packet being read once, no payload is
\* then returned by two calls.
C12_FuncallReturnsOwnPayload ==
    (op.name = "funcall" /\ op.status = "returned") =>
        /\ op.value = FuncallPayload(callRead)
        /\ conn.func_result = None

\* What a registry shows its user: under each type name and each OID, the
\* fields of the descriptor found there.
RegistryView(t, r) ==
    LET at(ref) == IF ref = 0 THEN None ELSE Some(t.heap[ref])
    IN  [names |-> [n \in TypeNames |-> at(t.reg[r].pg_types[n])],
         oids |-> [o \in Oids |-> at(t.reg[r].oid_map[o])],
         python_converters |-> t.reg[r].python_converters]

\* C13: whatever connection 1 registers in its own registry, the default
\* registry and the registry of connection 2 show what they showed before:
\* the same name index, the same OID index and the same fields, OID included,
\* in every descriptor.
C13_OtherRegistriesUnchanged ==
    /\ RegistryView(types, "DEFAULT_TYPE_MANAGER")
         = RegistryView(LoadedTypes, "DEFAULT_TYPE_MANAGER")
    /\ RegistryView(types, "conn2") = RegistryView(LoadedTypes, "conn2")

\* The literal un-escaped: a backslash stands for the character after it.
RECURSIVE Unescape(_)
Unescape(x) ==
    IF x = <<>> THEN <<>>
    ELSE IF Head(x) = Backslash /\ Len(x) >= 2
         THEN <<x[2]>> \o Unescape(SubSeq(x, 3, Len(x)))
         ELSE <<Head(x)>> \o Unescape(Tail(x))

\* A single quote stands somewhere in x with no backslash escaping it.
RECURSIVE HasBareQuote(_)
HasBareQuote(x) ==
    IF x = <<>> THEN FALSE
    ELSE IF Head(x) = Backslash THEN Len(x) < 2 \/ HasBareQuote(SubSeq(x, 3, Len(x)))
    ELSE Head(x) = Quote \/ HasBareQuote(Tail(x))

\* Every backslash and every single quote preceded by one added backslash.
RECURSIVE Escaped(_)
Escaped(x) ==
    IF x = <<>> THEN <<>>
    ELSE (IF Head(x) \in {Quote, Backslash} THEN <<Backslash, Head(x)>>
          ELSE <<Head(x)>>) \o Escaped(Tail(x))

Interior(x) == SubSeq(x, 2, Len(x) - 1)

\* C14: with no converter registered for the value's type, a string s is
\* encoded as a quote, s with one backslash added before each backslash and
\* each quote, and a quote; un-escaping the interior gives s back and the
\* interior has no bare quote; None is encoded as NULL.
C14_LiteralEscapes ==
    (lit.done /\ lit.obj.type \notin lit.python_converters) =>
        /\ lit.obj.type = "str" =>
            /\ lit.out = <<Quote>> \o Escaped(lit.obj.v) \o <<Quote>>
            /\ Unescape(Interior(lit.out)) = lit.obj.v
            /\ ~HasBareQuote(Interior(lit.out))
        /\ lit.obj.type = "NoneType" => lit.out = <<"N", "U", "L", "L">>

\* A string holding a backslash followed by a quote has been encoded.
C14_Witness ==
    /\ lit.done
    /\ lit.python_converters = {}
    /\ lit.obj = [type |-> "str", v |-> <<Backslash, Quote, "a">>]

\* C15: every bundle of the batch but the current one has exactly one of
\* error and completion set, and the current bundle has neither.
C15_ErrorXorCompletion ==
    /\ conn.result # None =>
        \A i \in 1 .. Len(conn.result[1]) :
            (conn.result[1][i].error # None) # (conn.result[1][i].completed # None)
    /\ conn.current_result # None =>
        (Cur(conn).error = None /\ Cur(conn).completed = None)

\* A batch in progress holds a completed bundle and a failed one.
C15_Witness ==
    /\ pc = "exec"
    /\ conn.result # None
    /\ Len(conn.result[1]) = 2
    /\ conn.result[1][1].completed # None
    /\ conn.result[1][2].error # None

\* The bundle owed for the packets seg received since the previous
\* CommandComplete/ErrorResponse, closed by the packet `closer` (None while it
\* is still open).
BundleOf(seg, closer) ==
    LET ts == SelectSeq(seg, LAMBDA p : p.tag = "T")
    IN  [description |-> IF ts = <<>> THEN None ELSE Some(Last(ts)),
         rows |-> IF ts = <<>> THEN None
                  ELSE Some(SelectSeq(seg, LAMBDA p : p.tag \in {"D", "B"})),
         messages |-> SelectSeq(seg, LAMBDA p : p.tag = "N"),
         error |-> IF closer # None /\ closer[1].tag = "E" THEN closer ELSE None,
         completed |-> IF closer # None /\ closer[1].tag = "C" THEN closer ELSE None]

\* The batch owed for the packets sq: one bundle per C or E packet, in order,
\* then the open one.
BatchOf(sq) ==
    LET cp == SelectSeq([i \in 1 .. Len(sq) |-> i], LAMBDA i : sq[i].tag \in {"C", "E"})
        n == Len(cp)
        from(j) == IF j = 1 THEN 1 ELSE cp[j - 1] + 1
        to(j) == IF j = n + 1 THEN Len(sq) ELSE cp[j] - 1
    IN  [j \in 1 .. n + 1 |->
            BundleOf(SubSeq(sq, from(j), to(j)),
                     IF j <= n THEN Some(sq[cp[j]]) ELSE None)]

\* The backend describes the rows of a result once, before its first row.
DescribedOnce(sq) ==
    \A i \in 1 .. Len(sq) :
        sq[i].tag = "T" =>
            \A j \in 1 .. i - 1 :
                sq[j].tag \in {"T", "D", "B"} =>
                    \E k \in j + 1 .. i - 1 : sq[k].tag \in {"C", "E"}

C17_NoNoticeDropped ==
    (ReadOwnAnswer /\ op.status = "returned") => Cur(conn).messages = <<>>

\* C18: a step that reads a Notification packet puts its one entry at the
\* tail of the notification queue (wait_for_notify, whose queue was empty,
\* returns it at once) and leaves every other field of the connection as it
\* was, the batch, the current bundle, ready, authenticated and the
\* function-result slot among them; only the bytes read leave the buffer.
C18_NotificationOnlyQueues ==
    [][ ( /\ Len(callRead') = Len(callRead) + 1
          /\ Last(callRead').tag = "A" )
        => ( /\ [conn' EXCEPT !.notify_queue = <<>>, !.input_buffer = <<>>]
                  = [conn EXCEPT !.notify_queue = <<>>, !.input_buffer = <<>>]
             /\ IF pc = "wait"
                THEN /\ op'.value = Some(Last(callRead').arg)
                     /\ conn'.notify_queue = conn.notify_queue
                ELSE conn'.notify_queue
                        = Append(conn.notify_queue, Last(callRead').arg)
             /\ pc' = IF pc = "wait" THEN "idle" ELSE pc ) ]_vars

\* A Notification was read in the middle of a result, between its row
\* description and its rows, with another one already queued.
C18_Witness ==
    /\ pc = "exec"
    /\ Len(callRead) = 3
    /\ callRead[1].tag = "A"
    /\ callRead[2].tag = "T"
    /\ callRead[3].tag = "A"
    /\ Cur(conn).description # None
    /\ Len(conn.notify_queue) = 2

\* C19: a NoticeResponse read by connect before the first ReadyForQuery is
\* accepted: connect goes on reading and does not fail on it.
C19_ConnectAcceptsNotice ==
    ( /\ op.name = "connect"
      /\ callRead # <<>>
      /\ Last(callRead) = Pkt("N", 1, 1) )
    => op.status = "running"

\* What a step that reads an R packet did: it set the authenticated flag and
\* wrote nothing; it wrote one password packet and did not touch the flag;
\* it raised an interface error, wrote nothing and did not touch the flag.
ReadsR == Len(callRead') = Len(callRead) + 1 /\ Last(callRead').tag = "R"
Authenticates ==
    conn'.authenticated = 1 /\ sent' = sent /\ op'.status = "running"
SendsPassword ==
    /\ sent' = sent \o <<"p">>
    /\ conn'.authenticated = conn.authenticated
    /\ op'.status = "running"
Refuses ==
    /\ op'.status = "InterfaceError"
    /\ sent' = sent
    /\ conn'.authenticated = conn.authenticated

\* C20 as stated: code 0 sets the authenticated flag and sends nothing; codes
\* 3, 4 and 5 each send exactly one password packet and do not set the flag;
\* codes 1, 2 and every other value raise an interface error, send nothing
\* and do not set the flag.
C20_AuthCodes ==
    [][ ReadsR =>
            CASE Last(callRead').arg = 0 -> Authenticates
              [] Last(callRead').arg \in {3, 4, 5} -> SendsPassword
              [] OTHER -> Refuses ]_vars

\* C20 amended: as stated for every code but 4; code 4 sends exactly one
\* password packet when the host has the crypt module, and otherwise raises
\* an interface error and sends nothing.
C20_AuthCodesCryptAvailable ==
    [][ ReadsR =>
            CASE Last(callRead').arg = 0 -> Authenticates
              [] Last(callRead').arg \in {3, 5} -> SendsPassword
              [] Last(callRead').arg = 4 -> SendsPassword \/ Refuses
              [] OTHER -> Refuses ]_vars

\* connect has answered a crypt password request with a password packet.
C20_Witness ==
    /\ op.name = "connect"
    /\ op.status = "running"
    /\ callRead = <<Pkt("R", 1, 4)>>
    /\ sent = <<"S", "p">>

\* C21: in the registry of connection 1, for every OID that register_oid has
\* bound, last to the name n, the OID index holds the very descriptor the
\* name index holds under n, however often n was registered again since
\* (no two OIDs being bound to one name, as in pg_type).
C21_IndexesAgree ==
    (\A o1, o2 \in Oids :
        (o1 # o2 /\ types.bound[o1] # "") => types.bound[o1] # types.bound[o2])
    => \A o \in Oids :
        types.bound[o] # "" =>
            types.reg["conn1"].oid_map[o]
                = types.reg["conn1"].pg_types[types.bound[o]]

\* The field last described has the type and the decoder of the descriptor
\* registered under its OID, or those of the default descriptor ("unknown",
\* _char_convert) when none is, and describing it did not fail.
DescribedAsRegistered ==
    types.described # None =>
        LET d == types.described[1]
            m == types.reg["conn1"].oid_map
            pg == IF d.oid \in Oids /\ m[d.oid] # 0 THEN types.heap[m[d.oid]]
                  ELSE [converter |-> "_char_convert", type_id |-> "unknown"]
        IN  /\ d.exc = None
            /\ d.type_id = Some(pg.type_id)
            /\ d.conversion = Some(pg.converter)

\* C22: whatever was registered before, describing a field of any OID does
\* not fail and gives the descriptor registered under the OID or the default
\* descriptor.
C22_LookupNeverFails ==
    [][ types'.described # types.described => DescribedAsRegistered' ]_vars

\* After some registrations, a field of an OID no one registered was
\* described.
C22_Witness ==
    /\ types.left < MaxRegs
    /\ types.described # None
    /\ types.described[1].oid \notin Oids
    /\ \E o \in Oids : types.reg["conn1"].oid_map[o] # 0
\* C23: every row appended to a bundle has as many values as the field count
\* of the most recent RowDescription, rowin.n: also when that count is 0, and
\* when a CommandComplete or an ErrorResponse came after the description; the
\* fresh bundle has no list of rows then, and nothing is appended.
C23_RowLengthIsFieldCount ==
    (rowin.done /\ rowin.result.rows # None) =>
        \A i \in 1 .. Len(rowin.result.rows[1]) :
            Len(rowin.result.rows[1][i]) = rowin.n

\* A row of no fields was appended: the empty list.
C23_Witness ==
    /\ rowin.done
    /\ rowin.n = 0
    /\ rowin.result.rows = Some(<< <<>> >>)

\* C24: a row encoded with a bitmap of ceil(n/8) bytes and the payloads of
\* the present fields is parsed back to the same values and the same nulls,
\* with exactly ceil(n/8) bitmap bytes, and all of the row, consumed.
C24_BitmapRoundTrip ==
    (rowin.done /\ rowin.result.num_fields = rowin.n /\ rowin.result.rows # None) =>
        /\ rowin.exc = None
        /\ rowin.result.rows[1] =
               << [i \in 1 .. rowin.n |->
                     IF rowin.present[i] THEN Some(FieldData(i)) ELSE None] >>
        /\ rowin.consumed * 8 >= rowin.n
        /\ rowin.consumed * 8 < rowin.n + 8
        /\ rowin.buf = <<>>

\* A row of 33 fields, five bitmap bytes, with the last field alone null.
C24_Witness ==
    /\ rowin.done
    /\ rowin.n = 33
    /\ rowin.consumed = 5
    /\ rowin.result.rows # None
    /\ Len(rowin.result.rows[1]) = 1
    /\ rowin.result.rows[1][1][33] = None
    /\ rowin.result.rows[1][1][32] # None
\* C25: what a CopyIn sends is the input up to its end or up to the first
\* line that is a backslash, a period and a newline, as it stands; then a
\* newline if the last line sent lacks one; then that terminator, last.
\* Nothing behind the terminating line is read or sent.
TerminatorAt(input, j) ==
    /\ j = 0 \/ input[j] = Newline
    /\ j + 3 <= Len(input)
    /\ SubSeq(input, j + 1, j + 3) = EndOfCopy

C25_CopyInBytes ==
    copyin.done =>
        LET input == copyin.input
            stops == {j \in 0 .. Len(input) : TerminatorAt(input, j)}
            k == IF stops = {} THEN Len(input)
                 ELSE CHOOSE j \in stops : \A i \in stops : j <= i
            data == SubSeq(input, 1, k)
            pad == IF k > 0 /\ input[k] # Newline THEN <<Newline>> ELSE <<>>
        IN  /\ copyin.tx = data \o pad \o EndOfCopy
            /\ copyin.src = IF stops = {} THEN <<>>
                            ELSE SubSeq(input, k + 4, Len(input))

\* The input ends in a line without a newline, with no terminating line.
C25_Witness ==
    /\ copyin.done
    /\ copyin.input = <<"a", Newline, Backslash, ".">>
    /\ copyin.tx = <<"a", Newline, Backslash, ".", Newline>> \o EndOfCopy
\* C26: over the life of a connection Terminate is sent at most once and is
\* the last thing sent; the socket is closed, which happens where it is set to
\* None, once: it is None after a close or a drop, exactly when Terminate has
\* been sent, and never set again.
Terminates == Len(SelectSeq(sent, LAMBDA t : t = "X"))

C26_TerminateOnce ==
    /\ [](/\ Terminates <= 1
          /\ Terminates = 1 => Last(sent) = "X"
          /\ conn.socket = None <=> Terminates = 1
          /\ op.name \in {"close", "__del__"} => conn.socket = None)
    /\ [][conn.socket = None => conn'.socket = None]_vars

\* The connection was closed and then dropped, after a request.
C26_Witness ==
    /\ op.name = "__del__"
    /\ op.closedAtCall
    /\ Terminates = 1
    /\ Len(sent) > 4
\* C27: a funcall on an established connection whose answer is an
\* ErrorResponse and then ReadyForQuery ends with a database error; it does
\* not return.
C27_FuncallErrorRaised ==
    ( /\ op.name = "funcall"
      /\ Finished
      /\ callRead = <<Pkt("E", op.q, 1), Pkt("Z", op.q, 0)>> )
    => op.status = "DatabaseError"

\* C28: the result a later execute returns holds no row description and no
\* row that the backend sent in answer to an earlier request, whatever
\* happened to the operations before it.
C28_BatchIsolation ==
    (op.name = "_execute" /\ op.status = "returned") =>
        LET v == op.value[1]
        IN  /\ v.description # None => v.description[1].q = op.q
            /\ v.rows # None =>
                   \A i \in 1 .. Len(v.rows[1]) : v.rows[1][i].q = op.q
\* C29: a cursor that holds a result set keeps its position within
\* 0 .. rowcount, whatever was called on it.
C29_PositionInRange ==
    cursor.cur.rows # None =>
        /\ 0 <= cursor.cur.rownumber[1]
        /\ cursor.cur.rownumber[1] <= cursor.cur.rowcount

====
